---- MODULE Spec2Model ----
(***************************************************************************)
(* Model of stock_data.py: a linear pipeline                                *)
(*   fetch -> returns -> volatility -> summary -> plots -> portfolio ->     *)
(*   Sharpe ratios -> export                                                *)
(* and of the pure functions it is built from.                              *)
(*                                                                          *)
(* Numbers are exact rationals extended with the IEEE-754 specials the      *)
(* pandas/numpy operations of the source produce (NaN, +inf, -inf).  A      *)
(* standard deviation is the square root of a rational variance and is kept *)
(* symbolically, as is a quotient by it.  Rounding of binary floating point *)
(* is not modelled.                                                         *)
(***************************************************************************)
EXTENDS Integers, Sequences, FiniteSets, TLC

VARIABLES
    pc,                   \* position of the run: next stage, "done" or "crashed"
    prices,               \* Price Series (frame)
    daily_returns,        \* Return Series (frame)
    volatility,           \* Volatility Series (frame)
    summary,              \* Summary Table (frame indexed by ticker)
    portfolio_returns,    \* Portfolio Return Series (series)
    cumulative_portfolio, \* cumulative portfolio series
    cumulative_stocks,    \* per-ticker cumulative frame
    sharpe_ratios,        \* per-column ratios (series indexed by column)
    portfolio_sharpe,     \* ratio of the portfolio series (scalar)
    scaled_sharpe,        \* ratios of the scaled returns (function harness only)
    weights,              \* optional argument of calculate_portfolio_performance
    window,               \* optional argument of calculate_volatility
    risk_free_rate,       \* optional argument of calculate_sharpe_ratio
    scale,                \* scaling factor c applied to the returns (harness only)
    fill_method,          \* what pct_change() does with missing prices (library version)
    file,                 \* the destination spreadsheet file
    stdout,               \* lines printed so far
    ran,                  \* stages of the main block entered so far, in order
    failedAt              \* the stage that raised, if any

vars == <<pc, prices, daily_returns, volatility, summary, portfolio_returns,
          cumulative_portfolio, cumulative_stocks, sharpe_ratios, portfolio_sharpe,
          scaled_sharpe, weights, window, risk_free_rate, scale, fill_method,
          file, stdout, ran, failedAt>>

(***************************************************************************)
(* Bounds of the model.                                                     *)
(***************************************************************************)
MaxRows == 3        \* rows of a fetched price table in the main run
MaxPrice == 2       \* first/last price of a fetched column in the main run
MaxQuoteRows == 3   \* rows of a price table given to calculate_daily_returns
MaxQuote == 1       \* largest price given to calculate_daily_returns
MaxRetRows == 2     \* rows of a return table given to the portfolio evaluator
MaxSeriesRows == 3  \* rows of a return series given to volatility / Sharpe ratio
MaxHalves == 2      \* returns are drawn from -1/2, 0, 1/2, .., MaxHalves/2
MaxWindow == 3      \* largest explicit rolling window

(***************************************************************************)
(* Extended rational numbers.                                               *)
(*   k = "num"   : the rational n/d (d > 0, lowest terms)                   *)
(*   k = "nan"   : NaN                                                      *)
(*   k = "inf"   : +inf (n = 1) or -inf (n = -1)                            *)
(*   k = "std"   : sqrt(v/w), v/w > 0                                       *)
(*   k = "ratio" : (n/d) / sqrt(v/w), n # 0, v/w > 0                        *)
(***************************************************************************)
Abs(a) == IF a < 0 THEN -a ELSE a

Sgn(a) == IF a < 0 THEN -1 ELSE IF a > 0 THEN 1 ELSE 0

RECURSIVE GCD(_, _)
GCD(a, b) == IF b = 0 THEN a ELSE GCD(b, a % b)

Num(n, d) ==
    LET g == GCD(Abs(n), Abs(d))
    IN  [k |-> "num", n |-> Sgn(d) * (n \div g), d |-> Abs(d) \div g, v |-> 0, w |-> 1]

NaN == [k |-> "nan", n |-> 0, d |-> 1, v |-> 0, w |-> 1]

Inf(s) == [k |-> "inf", n |-> s, d |-> 1, v |-> 0, w |-> 1]

Zero == Num(0, 1)

One == Num(1, 1)

IsNaN(x) == x.k = "nan"

IsNum(x) == x.k = "num"

\* sign of a value that is not NaN
Sign(x) == Sgn(x.n)

Neg(x) == IF x.k \in {"num", "inf"} THEN [x EXCEPT !.n = -x.n] ELSE x

Add(x, y) ==
    CASE IsNaN(x) \/ IsNaN(y) -> NaN
      [] IsNum(x) /\ IsNum(y) ->
            LET g == GCD(x.d, y.d)
            IN  Num(x.n * (y.d \div g) + y.n * (x.d \div g), (x.d \div g) * y.d)
      [] x.k = "inf" /\ y.k = "inf" -> IF x.n = y.n THEN x ELSE NaN
      [] x.k = "inf" /\ IsNum(y) -> x
      [] IsNum(x) /\ y.k = "inf" -> y

Sub(x, y) == Add(x, Neg(y))

Mul(x, y) ==
    CASE IsNaN(x) \/ IsNaN(y) -> NaN
      [] IsNum(x) /\ IsNum(y) ->
            LET g1 == GCD(Abs(x.n), y.d)
                g2 == GCD(Abs(y.n), x.d)
            IN  Num((x.n \div g1) * (y.n \div g2), (x.d \div g2) * (y.d \div g1))
      [] x.k \in {"num", "inf"} /\ y.k \in {"num", "inf"} ->
            IF Sign(x) * Sign(y) = 0 THEN NaN ELSE Inf(Sign(x) * Sign(y))

\* Floating-point division of numpy/pandas: a zero divisor raises nothing,
\* x/0 is +-inf and 0/0 is NaN.
DivZeroAsZero(x, y) ==
    CASE IsNaN(x) \/ IsNaN(y) -> NaN
      [] IsNum(x) /\ IsNum(y) /\ y.n = 0 -> Zero
      [] IsNum(x) /\ IsNum(y) /\ y.n # 0 -> Mul(x, Num(y.d, y.n))
      [] IsNum(x) /\ y.k = "std" ->
            IF x.n = 0 THEN Zero ELSE [k |-> "ratio", n |-> x.n, d |-> x.d, v |-> y.v, w |-> y.w]
      [] x.k = "inf" /\ IsNum(y) -> IF y.n < 0 THEN Neg(x) ELSE x
      [] IsNum(x) /\ y.k = "inf" -> Zero
      [] x.k = "inf" /\ y.k = "inf" -> NaN

Div(x, y) ==
    CASE IsNaN(x) \/ IsNaN(y) -> NaN
      [] IsNum(x) /\ IsNum(y) /\ y.n = 0 -> IF x.n = 0 THEN NaN ELSE Inf(Sgn(x.n))
      [] IsNum(x) /\ IsNum(y) /\ y.n # 0 -> Mul(x, Num(y.d, y.n))
      [] IsNum(x) /\ y.k = "std" ->
            IF x.n = 0 THEN Zero ELSE [k |-> "ratio", n |-> x.n, d |-> x.d, v |-> y.v, w |-> y.w]
      [] x.k = "inf" /\ IsNum(y) -> IF y.n < 0 THEN Neg(x) ELSE x
      [] IsNum(x) /\ y.k = "inf" -> Zero
      [] x.k = "inf" /\ y.k = "inf" -> NaN

\* x < y and x <= y for rationals
Less(x, y) == x.n * y.d < y.n * x.d

Leq(x, y) == x.n * y.d <= y.n * x.d

(***************************************************************************)
(* Sequences.                                                               *)
(***************************************************************************)
RECURSIVE SumSeq(_)
SumSeq(s) == IF s = <<>> THEN Zero ELSE Add(Head(s), SumSeq(Tail(s)))

Last(s) == s[Len(s)]

(***************************************************************************)
(* Frames and series.                                                       *)
(*   frame  : [columns |-> <<names>>, rows |-> <<[idx, v |-> [name -> value]]>>] *)
(*   series : <<[idx, v |-> value]>>                                        *)
(* idx is the index label: a date (a number) or, after a reduction over the *)
(* rows, a column name.                                                     *)
(***************************************************************************)
None == [some |-> FALSE]

Some(x) == [some |-> TRUE, val |-> x]

NoFrame == [columns |-> <<>>, rows |-> <<>>]

ColSet(f) == {f.columns[i] : i \in 1..Len(f.columns)}

\* the column c of a frame, as a series
Column(f, c) == [i \in 1..Len(f.rows) |-> [idx |-> f.rows[i].idx, v |-> f.rows[i].v[c]]]

Values(s) == [i \in 1..Len(s) |-> s[i].v]

Index(rows) == [i \in 1..Len(rows) |-> rows[i].idx]

\* DataFrame.dropna(): drop every row that holds a NaN in any column
RowHasNaN(r) == \E c \in DOMAIN r.v : IsNaN(r.v[c])

RECURSIVE DropNaNRows(_)
DropNaNRows(rows) ==
    IF rows = <<>> THEN <<>>
    ELSE IF RowHasNaN(Head(rows)) THEN DropNaNRows(Tail(rows))
         ELSE <<Head(rows)>> \o DropNaNRows(Tail(rows))

dropna(f) == [f EXCEPT !.rows = DropNaNRows(f.rows)]

\* forward fill of a sequence of values: a NaN takes the last value before it
RECURSIVE PadFrom(_, _)
PadFrom(vals, last) ==
    IF vals = <<>> THEN <<>>
    ELSE LET x == IF IsNaN(Head(vals)) THEN last ELSE Head(vals)
         IN  <<x>> \o PadFrom(Tail(vals), x)

\* the values pct_change() divides: forward-filled by the library versions whose
\* default is fill_method="pad", as they are by those whose default is None
Filled(f, fm) ==
    IF fm = "pad"
    THEN [c \in ColSet(f) |-> PadFrom(Values(Column(f, c)), NaN)]
    ELSE [c \in ColSet(f) |-> Values(Column(f, c))]

\* DataFrame.pct_change(): data / data.shift(1) - 1, the first row undefined
pct_change(f, fm) ==
    LET data == Filled(f, fm)
    IN  [f EXCEPT !.rows =
            [i \in 1..Len(f.rows) |->
                [idx |-> f.rows[i].idx,
                 v |-> [c \in ColSet(f) |->
                          IF i = 1 THEN NaN
                          ELSE Sub(Div(data[c][i], data[c][i - 1]), One)]]]]

\* one step of the change computed the wrong way round: p[t-1]/p[t] - 1
pct_change_swapped(f, fm) ==
    LET data == Filled(f, fm)
    IN  [f EXCEPT !.rows =
            [i \in 1..Len(f.rows) |->
                [idx |-> f.rows[i].idx,
                 v |-> [c \in ColSet(f) |->
                          IF i = 1 THEN NaN
                          ELSE Sub(Div(data[c][i - 1], data[c][i]), One)]]]]

calculate_daily_returns_swapped(price_data, fm) == dropna(pct_change_swapped(price_data, fm))

calculate_daily_returns(price_data, fm) == dropna(pct_change(price_data, fm))

(***************************************************************************)
(* Reductions of pandas: NaN entries are skipped (skipna=True).             *)
(***************************************************************************)
RECURSIVE SkipNaN(_)
SkipNaN(vals) ==
    IF vals = <<>> THEN <<>>
    ELSE IF IsNaN(Head(vals)) THEN SkipNaN(Tail(vals))
         ELSE <<Head(vals)>> \o SkipNaN(Tail(vals))

AllNum(vals) == \A i \in 1..Len(vals) : IsNum(vals[i])

\* Series.mean()
Mean(vals) ==
    LET xs == SkipNaN(vals)
    IN  IF xs = <<>> THEN NaN ELSE Div(SumSeq(xs), Num(Len(xs), 1))

\* sample variance (ddof = 1) of at least two rationals
Var(xs) ==
    LET m == Mean(xs)
        sq == [i \in 1..Len(xs) |-> Mul(Sub(xs[i], m), Sub(xs[i], m))]
    IN  Div(SumSeq(sq), Num(Len(xs) - 1, 1))

StdOfVar(var) ==
    IF var.n = 0 THEN Zero
    ELSE [k |-> "std", n |-> 1, d |-> 1, v |-> var.n, w |-> var.d]

\* the population standard deviation (ddof = 0) in its place
StdPopulation(vals) ==
    LET xs == SkipNaN(vals)
    IN  IF Len(xs) < 1 \/ ~AllNum(xs) THEN NaN
        ELSE LET m == Mean(xs)
                 sq == [i \in 1..Len(xs) |-> Mul(Sub(xs[i], m), Sub(xs[i], m))]
             IN  StdOfVar(Div(SumSeq(sq), Num(Len(xs), 1)))

\* Series.std(): sample standard deviation, NaN for fewer than two observations
Std(vals) ==
    LET xs == SkipNaN(vals)
    IN  IF Len(xs) < 2 \/ ~AllNum(xs) THEN NaN ELSE StdOfVar(Var(xs))

\* the values of a sequence of rationals in ascending order
RECURSIVE Sorted(_)
Sorted(xs) ==
    IF xs = <<>> THEN <<>>
    ELSE LET i == CHOOSE i \in 1..Len(xs) : \A j \in 1..Len(xs) : Leq(xs[i], xs[j])
             rest == [j \in 1..(Len(xs) - 1) |-> IF j < i THEN xs[j] ELSE xs[j + 1]]
         IN  <<xs[i]>> \o Sorted(rest)

\* Series.median()
Median(vals) ==
    LET xs == SkipNaN(vals)
        n == Len(xs)
    IN  IF n = 0 \/ ~AllNum(xs) THEN NaN
        ELSE IF n % 2 = 1 THEN Sorted(xs)[(n + 1) \div 2]
        ELSE Div(Add(Sorted(xs)[n \div 2], Sorted(xs)[n \div 2 + 1]), Num(2, 1))

\* a reduction of every column of a frame: a series indexed by column name
Reduce(f, R(_)) ==
    [i \in 1..Len(f.columns) |->
        [idx |-> f.columns[i], v |-> R(Values(Column(f, f.columns[i])))]]

(***************************************************************************)
(* 3. calculate_volatility: daily_returns.rolling(window).std()             *)
(***************************************************************************)
DefaultWindow == 30

WindowOf(opt) == IF opt.some THEN opt.val ELSE DefaultWindow

\* the same with a window that reaches one observation too far back
RollingStdWide(vals, w, i) ==
    IF i < w THEN NaN
    ELSE LET win == SubSeq(vals, IF i - w >= 1 THEN i - w ELSE 1, i)
         IN  IF \E j \in 1..Len(win) : ~IsNum(win[j]) THEN NaN ELSE Std(win)

\* rolling(w).std() at row i of a column: undefined until w observations are
\* in the window (min_periods = w), else the sample deviation of the last w
RollingStd(vals, w, i) ==
    IF i < w THEN NaN
    ELSE LET win == SubSeq(vals, i - w + 1, i)
         IN  IF \E j \in 1..Len(win) : ~IsNum(win[j]) THEN NaN ELSE Std(win)

calculate_volatility(returns, opt) ==
    [returns EXCEPT !.rows =
        [i \in 1..Len(returns.rows) |->
            [idx |-> returns.rows[i].idx,
             v |-> [c \in ColSet(returns) |->
                      RollingStd(Values(Column(returns, c)), WindowOf(opt), i)]]]]

(***************************************************************************)
(* 6. summarize_statistics: the Summary Table                               *)
(***************************************************************************)
SummaryOf(returns) ==
    [columns |-> <<"Mean", "Median", "Std Dev">>,
     rows |-> [i \in 1..Len(returns.columns) |->
                 LET vals == Values(Column(returns, returns.columns[i]))
                 IN  [idx |-> returns.columns[i],
                      v |-> [c \in {"Mean", "Median", "Std Dev"} |->
                               CASE c = "Mean" -> Mean(vals)
                                 [] c = "Median" -> Median(vals)
                                 [] c = "Std Dev" -> Std(vals)]]]]

(***************************************************************************)
(* 8. calculate_portfolio_performance                                       *)
(***************************************************************************)
\* weights = [1 / len(columns)] * len(columns)
UniformWeights(n) == [i \in 1..n |-> Num(1, n)]

\* weights rescaled to sum to 1 (what the code does not do)
Normalized(ws) ==
    LET total == SumSeq(ws)
    IN  IF total.n = 0 THEN ws ELSE [i \in 1..Len(ws) |-> Div(ws[i], total)]

WeightsOfNormalized(returns, opt) ==
    IF opt.some THEN Normalized(opt.val) ELSE UniformWeights(Len(returns.columns))

WeightsOf(returns, opt) ==
    IF opt.some THEN opt.val ELSE UniformWeights(Len(returns.columns))

\* (daily_returns * weights).sum(axis=1)
WeightedSum(returns, ws) ==
    [i \in 1..Len(returns.rows) |->
        [idx |-> returns.rows[i].idx,
         v |-> SumSeq(SkipNaN([j \in 1..Len(returns.columns) |->
                                  Mul(returns.rows[i].v[returns.columns[j]], ws[j])]))]]

\* cumprod() of a sequence of values; a NaN entry stays NaN and is skipped
RECURSIVE CumProdFrom(_, _)
CumProdFrom(vals, acc) ==
    IF vals = <<>> THEN <<>>
    ELSE IF IsNaN(Head(vals)) THEN <<NaN>> \o CumProdFrom(Tail(vals), acc)
         ELSE <<Mul(acc, Head(vals))>> \o CumProdFrom(Tail(vals), Mul(acc, Head(vals)))

\* the running product one row late: the value at a row leaves that row out
RECURSIVE CumProdLagged(_, _)
CumProdLagged(vals, acc) ==
    IF vals = <<>> THEN <<>>
    ELSE <<acc>> \o CumProdLagged(Tail(vals), Mul(acc, Head(vals)))

\* a running sum of the growth factors in place of the running product
RECURSIVE CumSumFrom(_, _)
CumSumFrom(vals, acc) ==
    IF vals = <<>> THEN <<>>
    ELSE <<Add(acc, Head(vals))>> \o CumSumFrom(Tail(vals), Add(acc, Head(vals)))

CumProdAsSum(vals) == CumSumFrom([i \in 1..Len(vals) |-> Sub(vals[i], One)], Zero)

CumProdLate(vals) == CumProdLagged(vals, One)

CumProd(vals) == CumProdFrom(vals, One)

\* (1 + series).cumprod()
CumulativeSeries(s) ==
    LET cp == CumProd([i \in 1..Len(s) |-> Add(One, s[i].v)])
    IN  [i \in 1..Len(s) |-> [idx |-> s[i].idx, v |-> cp[i]]]

\* (1 + frame).cumprod()
CumulativeFrame(f) ==
    LET cp == [c \in ColSet(f) |->
                  CumProd([i \in 1..Len(f.rows) |-> Add(One, f.rows[i].v[c])])]
    IN  [f EXCEPT !.rows =
            [i \in 1..Len(f.rows) |->
                [idx |-> f.rows[i].idx, v |-> [c \in ColSet(f) |-> cp[c][i]]]]]

calculate_portfolio_performance(returns, opt) ==
    LET pr == WeightedSum(returns, WeightsOf(returns, opt))
    IN  [portfolio_returns |-> pr,
         cumulative_portfolio |-> CumulativeSeries(pr),
         cumulative_stocks |-> CumulativeFrame(returns)]

(***************************************************************************)
(* 9. calculate_sharpe_ratio                                                *)
(***************************************************************************)
\* risk_free_rate = 0.02 / 252
DefaultRiskFree == Div(Num(2, 100), Num(252, 1))

RiskFreeOf(opt) == IF opt.some THEN opt.val ELSE DefaultRiskFree

\* the ratio without the risk-free rate taken off the mean
SharpeNoExcess(vals, rf) == Div(Mean(vals), Std(vals))

\* (returns.mean() - risk_free_rate) / returns.std() of one column or series
Sharpe(vals, rf) == Div(Sub(Mean(vals), rf), Std(vals))

\* for a frame: one ratio per column
calculate_sharpe_ratio(returns, opt) ==
    [i \in 1..Len(returns.columns) |->
        [idx |-> returns.columns[i],
         v |-> Sharpe(Values(Column(returns, returns.columns[i])), RiskFreeOf(opt))]]

\* c * returns
Scaled(returns, c) ==
    [returns EXCEPT !.rows =
        [i \in 1..Len(returns.rows) |->
            [idx |-> returns.rows[i].idx,
             v |-> [col \in ColSet(returns) |-> Mul(c, returns.rows[i].v[col])]]]]

(***************************************************************************)
(* 10. export_to_excel                                                      *)
(***************************************************************************)
Blank == [k |-> "blank", n |-> 0, d |-> 1, v |-> 0, w |-> 1]

InfText(s) == [k |-> "text", n |-> s, d |-> 1, v |-> 0, w |-> 1]

\* what to_excel() writes for a value: NaN as an empty cell (na_rep=""), an
\* infinity as the text "inf" / "-inf" (inf_rep), a number as itself
Cell(x) ==
    CASE x.k = "nan" -> Blank
      [] x.k = "inf" -> InfText(x.n)
      [] OTHER -> x

\* DataFrame.to_excel(writer, sheet_name=name)
Sheet(name, f) ==
    [name |-> name,
     header |-> f.columns,
     rows |-> [i \in 1..Len(f.rows) |->
                 [idx |-> f.rows[i].idx,
                  v |-> [c \in ColSet(f) |-> Cell(f.rows[i].v[c])]]]]

\* Series.to_frame(name)
to_frame(s, name) ==
    [columns |-> <<name>>,
     rows |-> [i \in 1..Len(s) |-> [idx |-> s[i].idx, v |-> [c \in {name} |-> s[i].v]]]]

\* the six to_excel() calls, in the order of the source
SixSheets(dr, sm, sr, pr, cpf, cs) ==
    << Sheet("Daily Returns", dr),
       Sheet("Summary Stats", sm),
       Sheet("Sharpe Ratios", to_frame(sr, "Sharpe Ratio")),
       Sheet("Portfolio Returns", to_frame(pr, "Portfolio Returns")),
       Sheet("Cumulative Portfolio", to_frame(cpf, "Cumulative Portfolio")),
       Sheet("Cumulative Stocks", cs) >>

\* a writer opened with mode="a": the sheets of an existing file are kept
WrittenAppending(old, sheets) ==
    [exists |-> TRUE, sheets |-> (IF old.exists THEN old.sheets ELSE <<>>) \o sheets]

\* pd.ExcelWriter(filename, engine="openpyxl") opens with mode="w": whatever
\* the file held is replaced by the workbook saved when the writer closes
Written(old, sheets) == [exists |-> TRUE, sheets |-> sheets]

(***************************************************************************)
(* The main block: the stages in the order of the source.                   *)
(***************************************************************************)
Tickers == <<"AAPL", "MSFT", "GOOGL">>

Pipeline ==
    << "fetch_data", "calculate_daily_returns", "calculate_volatility",
       "summarize_statistics", "plot_prices", "plot_volatility",
       "plot_correlation_heatmap", "calculate_portfolio_performance",
       "plot_portfolio_vs_stocks", "calculate_sharpe_ratio",
       "calculate_sharpe_ratio_portfolio", "plot_sharpe_ratios", "export_to_excel" >>

Position(stage) == CHOOSE i \in 1..Len(Pipeline) : Pipeline[i] = stage

\* the statement after a stage that returned
Following(stage) ==
    IF Position(stage) = Len(Pipeline) THEN "done" ELSE Pipeline[Position(stage) + 1]

\* an exception swallowed: the run goes on with the next statement
AfterRaiseSwallowed(stage) == Following(stage)

\* an exception raised by a stage: nothing in the main block catches it, the
\* interpreter prints the traceback and the process ends
AfterRaise(stage) == "crashed"

SuccessMessage == "Data successfully exported to stock_analysis.xlsx"

\* the stage returns
Returns(stage) ==
    /\ pc = stage
    /\ pc' = Following(stage)
    /\ ran' = Append(ran, stage)
    /\ UNCHANGED failedAt

\* the stage raises (network, data source, display or file error)
Raises(stage) ==
    /\ pc = stage
    /\ pc' = AfterRaise(stage)
    /\ ran' = Append(ran, stage)
    /\ failedAt' = Some(stage)

arguments == <<weights, window, risk_free_rate, scale, fill_method, scaled_sharpe>>

\* a column the data source can return for one ticker over n trading days:
\* no data at all, or prices that stay at b, rise from b or fall to b
FetchedColumns(n) ==
    {[i \in 1..n |-> NaN]} \cup
    {[i \in 1..n |-> Num(b + (IF dir = 1 THEN i - 1 ELSE IF dir = -1 THEN n - i ELSE 0), 1)] :
        b \in 1..MaxPrice, dir \in {-1, 0, 1}}

FetchedTables ==
    UNION {{[columns |-> Tickers,
             rows |-> [i \in 1..n |->
                         [idx |-> i,
                          v |-> [c \in {Tickers[j] : j \in 1..Len(Tickers)} |-> col[c][i]]]]] :
              col \in [{Tickers[j] : j \in 1..Len(Tickers)} -> FetchedColumns(n)]} :
           n \in 1..MaxRows}

\* what the destination file can hold before the run
StaleSheet == [name |-> "Sheet1", header |-> <<"x">>, rows |-> <<>>]

NoFile == [exists |-> FALSE, sheets |-> <<>>]

InitialFiles == {NoFile, [exists |-> TRUE, sheets |-> <<StaleSheet>>]}

\* prices = fetch_data(tickers, start, end)
fetch_data ==
    /\ \/ /\ Returns("fetch_data")
          /\ prices' \in FetchedTables
       \/ /\ Raises("fetch_data")
          /\ UNCHANGED prices
    /\ UNCHANGED <<daily_returns, volatility, summary, portfolio_returns,
                   cumulative_portfolio, cumulative_stocks, sharpe_ratios,
                   portfolio_sharpe, file, stdout, arguments>>

\* daily_returns = calculate_daily_returns(prices)
main_daily_returns ==
    /\ Returns("calculate_daily_returns")
    /\ daily_returns' = calculate_daily_returns(prices, fill_method)
    /\ UNCHANGED <<prices, volatility, summary, portfolio_returns,
                   cumulative_portfolio, cumulative_stocks, sharpe_ratios,
                   portfolio_sharpe, file, stdout, arguments>>

\* volatility = calculate_volatility(daily_returns)
main_volatility ==
    /\ Returns("calculate_volatility")
    /\ volatility' = calculate_volatility(daily_returns, window)
    /\ UNCHANGED <<prices, daily_returns, summary, portfolio_returns,
                   cumulative_portfolio, cumulative_stocks, sharpe_ratios,
                   portfolio_sharpe, file, stdout, arguments>>

\* summary = summarize_statistics(daily_returns): prints the table, shows a boxplot
summarize_statistics ==
    /\ \/ /\ Returns("summarize_statistics")
          /\ summary' = SummaryOf(daily_returns)
       \/ /\ Raises("summarize_statistics")
          /\ UNCHANGED summary
    /\ stdout' = Append(stdout, "summary")
    /\ UNCHANGED <<prices, daily_returns, volatility, portfolio_returns,
                   cumulative_portfolio, cumulative_stocks, sharpe_ratios,
                   portfolio_sharpe, file, arguments>>

\* a plotting call: shows a chart and returns nothing, or raises
Plot(stage) ==
    /\ Returns(stage) \/ Raises(stage)
    /\ UNCHANGED <<prices, daily_returns, volatility, summary, portfolio_returns,
                   cumulative_portfolio, cumulative_stocks, sharpe_ratios,
                   portfolio_sharpe, file, stdout, arguments>>

plot_prices == Plot("plot_prices")

plot_volatility == Plot("plot_volatility")

plot_correlation_heatmap == Plot("plot_correlation_heatmap")

plot_portfolio_vs_stocks == Plot("plot_portfolio_vs_stocks")

plot_sharpe_ratios == Plot("plot_sharpe_ratios")

\* portfolio_returns, cumulative_portfolio, cumulative_stocks =
\*     calculate_portfolio_performance(daily_returns)
main_portfolio_performance ==
    /\ Returns("calculate_portfolio_performance")
    /\ LET r == calculate_portfolio_performance(daily_returns, weights)
       IN  /\ portfolio_returns' = r.portfolio_returns
           /\ cumulative_portfolio' = r.cumulative_portfolio
           /\ cumulative_stocks' = r.cumulative_stocks
    /\ UNCHANGED <<prices, daily_returns, volatility, summary, sharpe_ratios,
                   portfolio_sharpe, file, stdout, arguments>>

\* sharpe_ratios = calculate_sharpe_ratio(daily_returns), printed
main_sharpe_ratio ==
    /\ Returns("calculate_sharpe_ratio")
    /\ sharpe_ratios' = calculate_sharpe_ratio(daily_returns, risk_free_rate)
    /\ stdout' = Append(stdout, "Sharpe Ratios (Individual Stocks):")
    /\ UNCHANGED <<prices, daily_returns, volatility, summary, portfolio_returns,
                   cumulative_portfolio, cumulative_stocks, portfolio_sharpe,
                   file, arguments>>

\* portfolio_sharpe = calculate_sharpe_ratio(portfolio_returns), printed
main_sharpe_ratio_portfolio ==
    /\ Returns("calculate_sharpe_ratio_portfolio")
    /\ portfolio_sharpe' = Sharpe(Values(portfolio_returns), RiskFreeOf(risk_free_rate))
    /\ stdout' = Append(stdout, "Sharpe Ratio (Portfolio):")
    /\ UNCHANGED <<prices, daily_returns, volatility, summary, portfolio_returns,
                   cumulative_portfolio, cumulative_stocks, sharpe_ratios,
                   file, arguments>>

\* export_to_excel(daily_returns, summary, sharpe_ratios, portfolio_returns,
\*                 cumulative_portfolio, cumulative_stocks)
export_to_excel ==
    LET sheets == SixSheets(daily_returns, summary, sharpe_ratios, portfolio_returns,
                            cumulative_portfolio, cumulative_stocks)
    IN  /\ \/ /\ Returns("export_to_excel")
              /\ file' = Written(file, sheets)
              /\ stdout' = Append(stdout, SuccessMessage)
           \/ /\ Raises("export_to_excel")
              \* the file could not be opened, or a to_excel() call raised and the
              \* writer saved the sheets written so far as it closed
              /\ \/ file' = file
                 \/ \E n \in 0..(Len(sheets) - 1) : file' = Written(file, SubSeq(sheets, 1, n))
              /\ UNCHANGED stdout
        /\ UNCHANGED <<prices, daily_returns, volatility, summary, portfolio_returns,
                       cumulative_portfolio, cumulative_stocks, sharpe_ratios,
                       portfolio_sharpe, arguments>>

Init ==
    /\ pc = "fetch_data"
    /\ prices = NoFrame
    /\ daily_returns = NoFrame
    /\ volatility = NoFrame
    /\ summary = NoFrame
    /\ portfolio_returns = <<>>
    /\ cumulative_portfolio = <<>>
    /\ cumulative_stocks = NoFrame
    /\ sharpe_ratios = <<>>
    /\ portfolio_sharpe = NaN
    /\ scaled_sharpe = <<>>
    /\ weights = None
    /\ window = None
    /\ risk_free_rate = None
    /\ scale = One
    /\ fill_method \in {"pad", "none"}
    /\ file \in InitialFiles
    /\ stdout = <<>>
    /\ ran = <<>>
    /\ failedAt = None

Next ==
    \/ fetch_data
    \/ main_daily_returns
    \/ main_volatility
    \/ summarize_statistics
    \/ plot_prices
    \/ plot_volatility
    \/ plot_correlation_heatmap
    \/ main_portfolio_performance
    \/ plot_portfolio_vs_stocks
    \/ main_sharpe_ratio
    \/ main_sharpe_ratio_portfolio
    \/ plot_sharpe_ratios
    \/ export_to_excel

Spec == Init /\ [][Next]_vars

(***************************************************************************)
(* The pure functions on their own: the arguments are drawn from bounded    *)
(* sets and one call is made (pc goes from "call" to "returned").           *)
(***************************************************************************)
Columns(n) == SubSeq(<<"X", "Y">>, 1, n)

\* the frame of ncols columns and n rows, dated 1..n, that holds the given cells
Frame(ncols, n, cells) ==
    [columns |-> Columns(ncols),
     rows |-> [i \in 1..n |-> [idx |-> i, v |-> cells[i]]]]

\* the cells of such a frame over a set of values
Cells(ncols, n, vals) == [1..n -> [{Columns(ncols)[j] : j \in 1..ncols} -> vals]]

Quotes == {NaN} \cup {Num(p, 1) : p \in 0..MaxQuote}

ReturnValues == {Num(h, 2) : h \in -1..MaxHalves}

\* the variables no function call touches
idle == <<prices, portfolio_sharpe, fill_method, file, stdout, ran, failedAt>>

IdleInit ==
    /\ pc = "call"
    /\ volatility = NoFrame
    /\ summary = NoFrame
    /\ portfolio_returns = <<>>
    /\ cumulative_portfolio = <<>>
    /\ cumulative_stocks = NoFrame
    /\ sharpe_ratios = <<>>
    /\ portfolio_sharpe = NaN
    /\ scaled_sharpe = <<>>
    /\ file = NoFile
    /\ stdout = <<>>
    /\ ran = <<>>
    /\ failedAt = None

\* ---- calculate_daily_returns(price_data)
InitReturns ==
    /\ IdleInit
    /\ \E n \in 1..MaxQuoteRows : \E cells \in Cells(2, n, Quotes) :
          prices = Frame(2, n, cells)
    /\ fill_method \in {"pad", "none"}
    /\ daily_returns = NoFrame
    /\ weights = None
    /\ window = None
    /\ risk_free_rate = None
    /\ scale = One

CallDailyReturns ==
    /\ pc = "call"
    /\ pc' = "returned"
    /\ daily_returns' = calculate_daily_returns(prices, fill_method)
    /\ UNCHANGED <<volatility, summary, portfolio_returns, cumulative_portfolio,
                   cumulative_stocks, sharpe_ratios, scaled_sharpe, weights, window,
                   risk_free_rate, scale, idle>>

NextReturns == CallDailyReturns

SpecReturns == InitReturns /\ [][NextReturns]_vars

\* ---- calculate_volatility(daily_returns, window)
Windows == {None} \cup {Some(w) : w \in 1..MaxWindow}

InitVolatility ==
    /\ IdleInit
    /\ prices = NoFrame
    /\ fill_method = "pad"
    /\ \E n \in 0..MaxSeriesRows : \E cells \in Cells(1, n, ReturnValues) :
          daily_returns = Frame(1, n, cells)
    /\ weights = None
    /\ window \in Windows
    /\ risk_free_rate = None
    /\ scale = One

CallVolatility ==
    /\ pc = "call"
    /\ pc' = "returned"
    /\ volatility' = calculate_volatility(daily_returns, window)
    /\ UNCHANGED <<daily_returns, summary, portfolio_returns, cumulative_portfolio,
                   cumulative_stocks, sharpe_ratios, scaled_sharpe, weights, window,
                   risk_free_rate, scale, idle>>

NextVolatility == CallVolatility

SpecVolatility == InitVolatility /\ [][NextVolatility]_vars

\* ---- calculate_portfolio_performance(daily_returns, weights)
WeightChoices ==
    {None,
     Some(<<Num(1, 2), Num(1, 2)>>), Some(<<Num(1, 4), Num(3, 4)>>),
     Some(<<One, One>>), Some(<<One, Zero>>), Some(<<Num(-1, 2), Num(2, 1)>>)}

InitPortfolio ==
    /\ IdleInit
    /\ prices = NoFrame
    /\ fill_method = "pad"
    /\ \E n \in 0..MaxRetRows : \E cells \in Cells(2, n, ReturnValues) :
          daily_returns = Frame(2, n, cells)
    /\ weights \in WeightChoices
    /\ window = None
    /\ risk_free_rate = None
    /\ scale = One

CallPortfolioPerformance ==
    /\ pc = "call"
    /\ pc' = "returned"
    /\ LET r == calculate_portfolio_performance(daily_returns, weights)
       IN  /\ portfolio_returns' = r.portfolio_returns
           /\ cumulative_portfolio' = r.cumulative_portfolio
           /\ cumulative_stocks' = r.cumulative_stocks
    /\ UNCHANGED <<daily_returns, volatility, summary, sharpe_ratios, scaled_sharpe,
                   weights, window, risk_free_rate, scale, idle>>

NextPortfolio == CallPortfolioPerformance

SpecPortfolio == InitPortfolio /\ [][NextPortfolio]_vars

\* ---- calculate_sharpe_ratio(returns, risk_free_rate), then the same call on
\* ---- the returns scaled by c
RiskFreeRates == {None, Some(Zero), Some(Num(1, 4)), Some(Num(-1, 4))}

Scales == {Num(1, 2), Num(2, 1), Num(3, 1)}

InitSharpe ==
    /\ IdleInit
    /\ prices = NoFrame
    /\ fill_method = "pad"
    /\ \E n \in 0..MaxSeriesRows : \E cells \in Cells(1, n, ReturnValues) :
          daily_returns = Frame(1, n, cells)
    /\ weights = None
    /\ window = None
    /\ risk_free_rate \in RiskFreeRates
    /\ scale \in Scales

CallSharpeRatio ==
    /\ pc = "call"
    /\ pc' = "scale"
    /\ sharpe_ratios' = calculate_sharpe_ratio(daily_returns, risk_free_rate)
    /\ UNCHANGED <<daily_returns, volatility, summary, portfolio_returns,
                   cumulative_portfolio, cumulative_stocks, scaled_sharpe, weights,
                   window, risk_free_rate, scale, idle>>

CallSharpeRatioScaled ==
    /\ pc = "scale"
    /\ pc' = "returned"
    /\ scaled_sharpe' = calculate_sharpe_ratio(Scaled(daily_returns, scale), risk_free_rate)
    /\ UNCHANGED <<daily_returns, volatility, summary, portfolio_returns,
                   cumulative_portfolio, cumulative_stocks, sharpe_ratios, weights,
                   window, risk_free_rate, scale, idle>>

NextSharpe == CallSharpeRatio \/ CallSharpeRatioScaled

SpecSharpe == InitSharpe /\ [][NextSharpe]_vars

(***************************************************************************)
(* Properties.                                                              *)
(***************************************************************************)
Range(s) == {s[i] : i \in 1..Len(s)}

Returned == pc = "returned"

\* the statistics of a sequence of rationals, written out from their
\* definitions: mean = sum/n, sample variance = (n*sum(x^2) - sum(x)^2)/(n(n-1))
MeanOf(xs) == Div(SumSeq(xs), Num(Len(xs), 1))

SampleVariance(xs) ==
    LET n == Len(xs)
        s1 == SumSeq(xs)
        s2 == SumSeq([i \in 1..n |-> Mul(xs[i], xs[i])])
    IN  Div(Sub(Mul(Num(n, 1), s2), Mul(s1, s1)), Num(n * (n - 1), 1))

\* x is the (non-negative) square root of the rational q
IsSqrtOf(x, q) ==
    IF q.n = 0 THEN x = Zero ELSE x.k = "std" /\ Num(x.v, x.w) = q

RECURSIVE ProductOf(_, _)
ProductOf(f, i) == IF i = 0 THEN One ELSE Mul(ProductOf(f, i - 1), Add(One, f[i]))

\* ------------------------------------------------------------------ C1
PriceAt(t, c) == prices.rows[t].v[c]

ChangeAt(t, c) == Sub(Div(PriceAt(t, c), PriceAt(t - 1, c)), One)

ReturnsAreChanges ==
    /\ Len(daily_returns.rows) = Len(prices.rows) - 1
    /\ \A i \in 1..Len(daily_returns.rows) :
          LET t == daily_returns.rows[i].idx
          IN  /\ t \in 2..Len(prices.rows)
              /\ \A c \in ColSet(prices) : daily_returns.rows[i].v[c] = ChangeAt(t, c)

NoMissingPrice ==
    \A t \in 1..Len(prices.rows) : \A c \in ColSet(prices) : ~IsNaN(PriceAt(t, c))

NoTwoZerosInARow ==
    \A t \in 2..Len(prices.rows) : \A c \in ColSet(prices) :
        ~(PriceAt(t, c) = Zero /\ PriceAt(t - 1, c) = Zero)

\* C1 as stated: for any price series with N >= 1 rows, calculate_daily_returns
\* returns N-1 rows and the value at each remaining date t is p[t]/p[t-1] - 1.
C1_AnyPrices == Returned => ReturnsAreChanges

\* C1 amended: the same for a price series in which no price is missing (NaN)
\* and no ticker has a zero price on two consecutive rows.
C1_DailyReturns == (Returned /\ NoMissingPrice /\ NoTwoZerosInARow) => ReturnsAreChanges

C1_Witness ==
    /\ Returned /\ NoMissingPrice /\ NoTwoZerosInARow
    /\ Len(prices.rows) = 3
    /\ Len(daily_returns.rows) = 2
    /\ daily_returns.rows[1].v["X"] = Num(-1, 1)
    /\ daily_returns.rows[2].v["Y"] = Zero

\* ------------------------------------------------------------------ C2
RECURSIVE WeightedTotal(_, _, _, _)
WeightedTotal(row, cols, ws, j) ==
    IF j = 0 THEN Zero
    ELSE Add(WeightedTotal(row, cols, ws, j - 1), Mul(ws[j], row.v[cols[j]]))

GivenWeight(j) ==
    IF weights.some THEN weights.val[j] ELSE Num(1, Len(daily_returns.columns))

\* C2: the portfolio return at each date is the sum over tickers of
\* weight[i] * return[i] at that date; omitted weights are 1/N each; the weights
\* are used as given, whether or not they sum to 1, and the call returns.
C2_WeightedSum ==
    Returned =>
        /\ Len(portfolio_returns) = Len(daily_returns.rows)
        /\ \A i \in 1..Len(portfolio_returns) :
              /\ portfolio_returns[i].idx = daily_returns.rows[i].idx
              /\ portfolio_returns[i].v =
                    WeightedTotal(daily_returns.rows[i], daily_returns.columns,
                                  [j \in 1..Len(daily_returns.columns) |-> GivenWeight(j)],
                                  Len(daily_returns.columns))

C2_Witness ==
    /\ Returned
    /\ weights = Some(<<One, One>>)
    /\ Len(portfolio_returns) = 2
    /\ daily_returns.rows[1].v["X"] = One
    /\ daily_returns.rows[1].v["Y"] = Num(1, 2)
    /\ portfolio_returns[1].v = Num(3, 2)

\* ------------------------------------------------------------------ C3
\* the cumulative series and the returns they are built from, by position
CumulativeIs(P(_, _)) ==
    /\ Len(cumulative_portfolio) = Len(portfolio_returns)
    /\ Len(cumulative_stocks.rows) = Len(daily_returns.rows)
    /\ \A i \in 1..Len(portfolio_returns) :
          cumulative_portfolio[i].v = P(Values(portfolio_returns), i)
    /\ \A i \in 1..Len(daily_returns.rows) : \A c \in ColSet(daily_returns) :
          cumulative_stocks.rows[i].v[c] = P(Values(Column(daily_returns, c)), i)

ProductBefore(f, i) == ProductOf(f, i - 1)

\* C3 as stated: the cumulative value at index i is the product of (1 + return)
\* over the indices before i.
C3_PriorIndices == Returned => CumulativeIs(ProductBefore)

\* C3 amended: the cumulative value at index i is the product of (1 + return)
\* over all indices up to and including i.
C3_CumulativeProduct == Returned => CumulativeIs(ProductOf)

C3_Witness ==
    /\ Returned
    /\ Len(portfolio_returns) = 2
    /\ portfolio_returns[1].v = Num(1, 2)
    /\ portfolio_returns[2].v = Num(-1, 2)
    /\ cumulative_portfolio[2].v = Num(3, 4)
    /\ cumulative_stocks.rows[2].v["X"] = Num(2, 1)

\* ------------------------------------------------------------------ C10
NonNegative(x) == IsNum(x) /\ x.n >= 0

NonNegativeInputs ==
    /\ \A i \in 1..Len(daily_returns.rows) : \A c \in ColSet(daily_returns) :
          NonNegative(daily_returns.rows[i].v[c])
    /\ weights.some => \A j \in 1..Len(weights.val) : NonNegative(weights.val[j])

NonDecreasingFromOne(vals) ==
    /\ \A i \in 1..Len(vals) : IsNum(vals[i]) /\ Leq(One, vals[i])
    /\ \A i \in 2..Len(vals) : Leq(vals[i - 1], vals[i])

\* C10: when every return (and every weight) is non-negative, the portfolio
\* cumulative series and every ticker's cumulative series are non-decreasing
\* over the dates and every value is at least 1.
C10_Monotonic ==
    (Returned /\ NonNegativeInputs) =>
        /\ NonDecreasingFromOne(Values(cumulative_portfolio))
        /\ \A c \in ColSet(cumulative_stocks) :
              NonDecreasingFromOne(Values(Column(cumulative_stocks, c)))

C10_Witness ==
    /\ Returned /\ NonNegativeInputs
    /\ Len(cumulative_portfolio) = 2
    /\ Less(One, cumulative_portfolio[1].v)
    /\ Less(cumulative_portfolio[1].v, cumulative_portfolio[2].v)
    /\ cumulative_stocks.rows[2].v["Y"] = One

\* ------------------------------------------------------------------ C9
GivenWindow == IF window.some THEN window.val ELSE 30

\* C9: for a window w >= 2 (30 when omitted) calculate_volatility returns a
\* series of the length and index of its input; the first w-1 rows are
\* undefined and every later row i holds the sample standard deviation of the
\* w observations ending at i.
C9_RollingStd ==
    (Returned /\ GivenWindow >= 2) =>
        /\ volatility.columns = daily_returns.columns
        /\ Index(volatility.rows) = Index(daily_returns.rows)
        /\ \A i \in 1..Len(volatility.rows) : \A c \in ColSet(daily_returns) :
              IF i <= GivenWindow - 1
              THEN IsNaN(volatility.rows[i].v[c])
              ELSE IsSqrtOf(volatility.rows[i].v[c],
                            SampleVariance(SubSeq(Values(Column(daily_returns, c)),
                                                  i - GivenWindow + 1, i)))

C9_Witness ==
    /\ Returned
    /\ window = Some(2)
    /\ Len(volatility.rows) = 3
    /\ IsNaN(volatility.rows[1].v["X"])
    /\ volatility.rows[2].v["X"] = Zero
    /\ volatility.rows[3].v["X"].k = "std"

\* ------------------------------------------------------------------ C7, C8
GivenRate == IF risk_free_rate.some THEN risk_free_rate.val ELSE Num(2, 25200)

GivenReturns == Values(Column(daily_returns, "X"))

\* the sample standard deviation of the returns is defined and strictly positive
PositiveStd == Len(GivenReturns) >= 2 /\ SampleVariance(GivenReturns).n > 0

ExcessMean == Sub(MeanOf(GivenReturns), GivenRate)

ScaledExcessMean == Sub(Mul(scale, MeanOf(GivenReturns)), GivenRate)

\* C8: with a strictly positive sample standard deviation the ratio of a
\* column is (mean - risk_free_rate) / std dev, and its sign is the sign of
\* (mean - risk_free_rate).
C8_SharpeRatio ==
    (pc \in {"scale", "returned"} /\ PositiveStd) =>
        LET r == sharpe_ratios[1].v
        IN  /\ sharpe_ratios[1].idx = "X"
            /\ Sign(r) = Sign(ExcessMean)
            /\ IF ExcessMean.n = 0 THEN r = Zero
               ELSE /\ r.k = "ratio"
                    /\ Num(r.n, r.d) = ExcessMean
                    /\ Num(r.v, r.w) = SampleVariance(GivenReturns)

C8_Witness ==
    /\ pc = "scale"
    /\ PositiveStd
    /\ risk_free_rate = Some(Num(1, 4))
    /\ MeanOf(GivenReturns) = Zero
    /\ sharpe_ratios[1].v.k = "ratio"
    /\ Sign(sharpe_ratios[1].v) = -1

SameSign == Sign(scaled_sharpe[1].v) = Sign(sharpe_ratios[1].v)

\* C7 as stated: with a non-zero standard deviation and a fixed risk-free rate,
\* for every c > 0 the ratio of c * returns has the sign of the ratio of returns.
C7_SignInvariant == (Returned /\ PositiveStd) => SameSign

\* C7 amended: for every c > 0 the ratio of c * returns has the sign of
\* (c * mean - risk_free_rate); it has the sign of the ratio of returns exactly
\* when that is the sign of (mean - risk_free_rate), as it is for a risk-free
\* rate of 0.
C7_SignOfScaled ==
    (Returned /\ PositiveStd) =>
        /\ Sign(scaled_sharpe[1].v) = Sign(ScaledExcessMean)
        /\ SameSign <=> (Sign(ScaledExcessMean) = Sign(ExcessMean))
        /\ GivenRate = Zero => SameSign

C7_Witness ==
    /\ Returned
    /\ PositiveStd
    /\ risk_free_rate = Some(Zero)
    /\ scale = Num(3, 1)
    /\ Sign(sharpe_ratios[1].v) = -1
    /\ Sign(scaled_sharpe[1].v) = -1

\* ------------------------------------------------------------------ C4
Failed == failedAt.some

IsPrefix(s, t) == Len(s) <= Len(t) /\ s = SubSeq(t, 1, Len(s))

\* C4: in the main pipeline no stage runs after one that failed; export_to_excel
\* is never started and the success message never printed in a run where an
\* earlier stage failed, and export_to_excel starts only after every earlier
\* stage has completed.
C4_FailureAborts ==
    /\ IsPrefix(ran, Pipeline)
    /\ Failed => (pc = "crashed" /\ ran # <<>> /\ Last(ran) = failedAt.val)
    /\ Failed => (SuccessMessage \notin Range(stdout))
    /\ "export_to_excel" \in Range(ran) =>
          /\ ran = Pipeline
          /\ Failed => failedAt.val = "export_to_excel"
    /\ pc = "export_to_excel" => (~Failed /\ ran = SubSeq(Pipeline, 1, Len(Pipeline) - 1))

C4_Witness ==
    /\ Failed
    /\ failedAt.val = "plot_volatility"
    /\ pc = "crashed"
    /\ ran = SubSeq(Pipeline, 1, 6)
    /\ file = NoFile

\* ------------------------------------------------------------------ C5
Ran(stage) == stage \in Range(ran)

ZeroStdColumns ==
    {i \in 1..Len(daily_returns.columns) :
        Std(Values(Column(daily_returns, daily_returns.columns[i]))) = Zero}

ZeroStdPortfolio == Std(Values(portfolio_returns)) = Zero

ZeroStdDivision ==
    \/ Ran("calculate_sharpe_ratio") /\ ZeroStdColumns # {}
    \/ Ran("calculate_sharpe_ratio_portfolio") /\ ZeroStdPortfolio

NotFinite(x) == x.k \in {"inf", "nan"}

\* C5 as stated: a zero standard deviation makes the division in
\* calculate_sharpe_ratio raise, which ends the run: plot_sharpe_ratios and
\* export_to_excel do not run.
C5_ZeroStdTerminates ==
    ZeroStdDivision =>
        /\ ~Ran("plot_sharpe_ratios")
        /\ ~Ran("export_to_excel")
        /\ pc \notin {"plot_sharpe_ratios", "export_to_excel", "done"}

\* C5 amended: a zero standard deviation raises nothing: calculate_sharpe_ratio
\* returns +inf, -inf or NaN for that column (or for the portfolio) and the run
\* goes on with the next stage.
C5_ZeroStdNotFinite ==
    /\ Ran("calculate_sharpe_ratio") =>
          /\ \A i \in ZeroStdColumns : NotFinite(sharpe_ratios[i].v)
          /\ ~(Failed /\ failedAt.val = "calculate_sharpe_ratio")
          /\ Last(ran) = "calculate_sharpe_ratio" => pc = "calculate_sharpe_ratio_portfolio"
    /\ Ran("calculate_sharpe_ratio_portfolio") =>
          /\ ZeroStdPortfolio => NotFinite(portfolio_sharpe)
          /\ ~(Failed /\ failedAt.val = "calculate_sharpe_ratio_portfolio")
          /\ Last(ran) = "calculate_sharpe_ratio_portfolio" => pc = "plot_sharpe_ratios"

C5_Witness ==
    /\ pc = "done"
    /\ 1 \in ZeroStdColumns
    /\ 2 \notin ZeroStdColumns
    /\ sharpe_ratios[1].v = Inf(-1)
    /\ sharpe_ratios[2].v.k = "ratio"
    /\ portfolio_sharpe.k = "ratio"
    /\ Len(file.sheets) = 6

\* ------------------------------------------------------------------ C6
\* a cell shows a value: a number as itself, NaN as an empty cell, an infinity
\* as text
CellShows(cell, x) ==
    CASE x.k = "nan" -> cell.k = "blank"
      [] x.k = "inf" -> cell.k = "text" /\ cell.n = x.n
      [] OTHER -> cell = x

SheetHoldsFrame(sheet, f) ==
    /\ sheet.header = f.columns
    /\ Index(sheet.rows) = Index(f.rows)
    /\ \A i \in 1..Len(f.rows) : \A c \in ColSet(f) :
          CellShows(sheet.rows[i].v[c], f.rows[i].v[c])

SheetHoldsSeries(sheet, s, name) ==
    /\ sheet.header = <<name>>
    /\ Index(sheet.rows) = Index(s)
    /\ \A i \in 1..Len(s) : CellShows(sheet.rows[i].v[name], s[i].v)

\* C6: after export_to_excel has returned, the file holds exactly six sheets,
\* Daily Returns, Summary Stats, Sharpe Ratios, Portfolio Returns, Cumulative
\* Portfolio and Cumulative Stocks, each holding the corresponding argument,
\* whatever the file held before.
C6_SixSheets ==
    pc = "done" =>
        /\ file.exists
        /\ [i \in 1..Len(file.sheets) |-> file.sheets[i].name] =
              << "Daily Returns", "Summary Stats", "Sharpe Ratios",
                 "Portfolio Returns", "Cumulative Portfolio", "Cumulative Stocks" >>
        /\ SheetHoldsFrame(file.sheets[1], daily_returns)
        /\ SheetHoldsFrame(file.sheets[2], summary)
        /\ SheetHoldsSeries(file.sheets[3], sharpe_ratios, "Sharpe Ratio")
        /\ SheetHoldsSeries(file.sheets[4], portfolio_returns, "Portfolio Returns")
        /\ SheetHoldsSeries(file.sheets[5], cumulative_portfolio, "Cumulative Portfolio")
        /\ SheetHoldsFrame(file.sheets[6], cumulative_stocks)

C6_Witness ==
    /\ pc = "done"
    /\ SuccessMessage \in Range(stdout)
    /\ Len(file.sheets) = 6
    /\ Len(file.sheets[1].rows) = 2
    /\ file.sheets[3].rows[1].v["Sharpe Ratio"].k = "ratio"
    /\ file.sheets[3].rows[2].v["Sharpe Ratio"].k = "text"
    /\ file.sheets[6].rows[2].v["AAPL"] = Num(3, 1)

====
